---- MODULE Spec2Model ----
(***************************************************************************)
(* Emergency-alert lifecycle of the ride-companion backend.                *)
(*                                                                         *)
(* The store is MongoDB behind mongoose.  A handler that loads a document  *)
(* works on its own in-memory copy; document.save() sends only the paths   *)
(* the handler modified ($set for scalars, $push for an array push), and   *)
(* no handler takes a lock.  Node runs the code between two awaits         *)
(* atomically, so every action below is one such stretch of a handler,     *)
(* joined with the store operation it awaited.                             *)
(*                                                                         *)
(* Time is counted in minutes.  The clock advances in steps of            *)
(* TickMinutes and only between store round trips: a round trip takes      *)
(* milliseconds, so a Date taken when a write is issued is the clock of    *)
(* the step that applies the write.                                        *)
(***************************************************************************)
EXTENDS Integers, Sequences, FiniteSets, TLC

\* ---------------------------------------------------------------- bounds
NumUsers == 3
NumReporters == 1
MaxAlerts == 2
LifecycleAlerts == 1
MaxReq == 2
MaxClock == 40
TickMinutes == 10
MaxSockets == 3
GridMeters == 5000
MaxGrid == 3
MaxQuerySockets == 2
MaxRooms == 1
MaxRides == 3
AlertPosition == 15000

Users == 1..NumUsers
\* the users who report alerts in the model
Reporters == 1..NumReporters
AlertIds == 1..MaxAlerts
Slots == 1..MaxReq
SocketIds == 1..MaxSockets
\* places along one great circle, as metres from its origin
Positions == {k * GridMeters : k \in 0..MaxGrid}
\* the schema default of User.currentLocation.coordinates, [0, 0]: the origin
DefaultLocation == 0
\* a request that carries no location
NoLocationGiven == -1
\* !x of a coordinate: 0 is falsy, as is a missing value
Falsy(x) == x = 0 \/ x = NoLocationGiven
\* the largest valid coordinate (latitude 90, longitude 180) and one beyond it
WorldEdge == MaxGrid * GridMeters
OutOfRange == WorldEdge + GridMeters

\* ------------------------------------------------------ program constants
\* 5 * 60 * 1000 ms, the duplicate-alert window of POST /alert
FIVE_MINUTES == 5
\* 30 * 60 * 1000 ms, the delay of scheduleAutoResolve
THIRTY_MINUTES == 30
\* points of an emergency_response reward
RESPONSE_POINTS == 50
\* the radius of the nearby-rider lookup of the fan-out, in metres
TEN_KM == 10000

NoUser == 0
NoDate == -1
NoSocket == 0

VARIABLES
    clock,      \* Date.now(), in minutes
    alerts,     \* the EmergencyAlert collection; the index is the _id
    timers,     \* per alert: the setTimeout of scheduleAutoResolve
    req,        \* handlers in flight, one per slot
    rewards,    \* the Reward collection: emergency_response records per (user, alert)
    stats,      \* User.stats of every user
    reply,      \* the response or socket emit of the last step
    sockets,    \* the socket.io connections and the progress of their handlers
    connectedUsers, \* the Map userId -> socketId of socketService.js
    isOnline,   \* User.isOnline of every user
    location,   \* User.currentLocation of every user
    pushes,     \* per alert: the users sent 'emergency-alert', in the order sent
    fanout,     \* per alert: the nearby-rider fan-out has run
    notify,     \* per alert: the progress of notifyContacts
    achievements, \* the Achievement collection: progress per user
    leaderboard, \* the Leaderboard collection: total_points score per user
    found,      \* the list a query route has just answered with
    given,      \* the location carried by the creation request just received
    redemptions, \* the Reward collection: the redemption records
    rooms,      \* the ChatRoom collection; the index is the _id
    rides,      \* the Ride collection; the index is the _id
    riders      \* User.isRiding and User.stats.totalRides of every user

presenceVars == <<sockets, connectedUsers, isOnline, location>>
dispatchVars == <<pushes, fanout, notify>>
ledgerVars == <<achievements, leaderboard>>
communityVars == <<redemptions, rooms, rides, riders>>

vars == <<clock, alerts, timers, req, rewards, stats, reply,
          presenceVars, dispatchVars, ledgerVars, found, given, communityVars>>

\* ------------------------------------------------------------ documents
\* new EmergencyAlert({user, ...}): schema defaults for the other paths
NewAlert(u, now, loc) ==
    [user |-> u, status |-> "active", responders |-> <<>>,
     autoResolved |-> FALSE, resolvedAt |-> NoDate, resolvedBy |-> NoUser,
     createdAt |-> now, location |-> loc]

Idle == [pc |-> "idle", kind |-> "none", user |-> NoUser, alert |-> 0, points |-> 0,
         loc |-> NoLocationGiven]
NoTimer == [state |-> "none", due |-> NoDate, status |-> "none"]
\* the result of the response or emit of a step; NoReply when the step sends none
NoReply == "none"
\* no list answered by the step
NoResult == <<>>
\* a socket id not yet handed out
NoConnection == [user |-> NoUser, live |-> FALSE, pc |-> "none"]
\* no document of the user in the Achievement collection
NoAchievements == [first_responder |-> 0, hero_responder |-> 0, community_helper |-> 0]

\* ------------------------------------------------------------ user ids
\* The store holds users by number.  The code holds an id either as a mongoose
\* ObjectId or as the string its toString() gives.
ObjectId(u) == <<"ObjectId", u>>

toString(id) == <<"string", id[2]>>

\* the auth middleware of the HTTP routes: req.user = { id: user._id, ... }
ReqUserId(u) == ObjectId(u)

\* socketAuth: socket.userId = user._id.toString()
SocketUserId(u) == toString(ObjectId(u))

\* the operators === and !== : values of different types are never equal
StrictEquals(x, y) == x = y

Exists(a) == a \in 1..Len(alerts)

Range(s) == {s[i] : i \in 1..Len(s)}

\* alerts being created by a handler that has not inserted yet
PendingInserts == Cardinality({r \in Slots : req[r].pc = "insert"})

\* a new handler runs in the first free slot (slots carry no identity)
Free(r) ==
    /\ req[r].pc = "idle"
    /\ \A q \in 1..(r - 1) : req[q].pc # "idle"

\* the model starts a creation only below a cap on the number of alerts and
\* while the timer of the new alert can come due before MaxClock
CanCreate(cap) ==
    /\ Len(alerts) + PendingInserts < cap
    /\ clock + THIRTY_MINUTES <= MaxClock

Init ==
    /\ clock = 0
    /\ alerts = <<>>
    /\ timers = [a \in AlertIds |-> NoTimer]
    /\ req = [r \in Slots |-> Idle]
    /\ rewards = [u \in Users |-> [a \in AlertIds |-> 0]]
    /\ stats = [u \in Users |-> [helpCount |-> 0, rewardPoints |-> 0]]
    /\ reply = NoReply
    /\ sockets = [s \in SocketIds |-> NoConnection]
    /\ connectedUsers = [u \in Users |-> NoSocket]
    /\ isOnline = [u \in Users |-> FALSE]
    /\ location = [u \in Users |-> DefaultLocation]
    /\ pushes = [a \in AlertIds |-> <<>>]
    /\ fanout = [a \in AlertIds |-> FALSE]
    /\ notify = [a \in AlertIds |-> "none"]
    /\ achievements = [u \in Users |-> NoAchievements]
    /\ leaderboard = [u \in Users |-> 0]
    /\ found = NoResult
    /\ given = NoLocationGiven
    /\ redemptions = <<>>
    /\ rooms = <<>>
    /\ rides = <<>>
    /\ riders = [u \in Users |-> [isRiding |-> FALSE, totalRides |-> 0]]

\* ------------------------------------------------------------------ time
\* no store round trip is under way
Quiescent ==
    /\ \A r \in Slots : req[r].pc = "idle"
    /\ \A a \in AlertIds : timers[a].state # "saving"

TickBy(minutes) ==
    /\ Quiescent
    /\ clock + minutes <= MaxClock
    /\ clock' = clock + minutes
    /\ reply' = NoReply
    /\ UNCHANGED <<alerts, timers, req, rewards, stats>>
    /\ UNCHANGED <<presenceVars, dispatchVars, ledgerVars>>
    /\ found' = NoResult
    /\ given' = NoLocationGiven
    /\ UNCHANGED communityVars

Tick == TickBy(TickMinutes)

\* ------------------------------------------------- io.on('connection')
\* a connection of user u arrives as socket s; the handler awaits
\* User.findByIdAndUpdate(isOnline: true)
Connect(s, u) ==
    /\ sockets[s].pc = "none"
    /\ \A q \in 1..(s - 1) : sockets[q].pc # "none"
    /\ sockets' = [sockets EXCEPT ![s] = [user |-> u, live |-> TRUE, pc |-> "register"]]
    /\ isOnline' = [isOnline EXCEPT ![u] = TRUE]
    /\ reply' = NoReply
    /\ UNCHANGED <<connectedUsers, location>>
    /\ UNCHANGED <<clock, alerts, timers, req, rewards, stats, dispatchVars, ledgerVars>>
    /\ found' = NoResult
    /\ given' = NoLocationGiven
    /\ UNCHANGED communityVars

\* connectedUsers.set(userId, ...); broadcast 'user-online'; emit 'online-users';
\* then the socket.on(...) registrations, 'disconnect' among them
ConnectRegister(s) ==
    /\ sockets[s].pc = "register"
    /\ connectedUsers' = [connectedUsers EXCEPT ![sockets[s].user] = s]
    /\ sockets' = [sockets EXCEPT ![s].pc = "ready"]
    /\ reply' = "user-online"
    /\ UNCHANGED <<isOnline, location>>
    /\ UNCHANGED <<clock, alerts, timers, req, rewards, stats, dispatchVars, ledgerVars>>
    /\ found' = NoResult
    /\ given' = NoLocationGiven
    /\ UNCHANGED communityVars

\* the transport of socket s closes.  With the 'disconnect' listener registered
\* its handler starts and awaits User.findByIdAndUpdate(isOnline: false); while
\* the connection handler is still at its await no listener exists and the
\* event is lost.
Disconnect(s) ==
    /\ sockets[s].live
    /\ sockets[s].pc \in {"register", "ready"}
    /\ IF sockets[s].pc = "ready"
       THEN /\ sockets' = [sockets EXCEPT ![s].live = FALSE, ![s].pc = "unregister"]
            /\ isOnline' = [isOnline EXCEPT ![sockets[s].user] = FALSE]
       ELSE /\ sockets' = [sockets EXCEPT ![s].live = FALSE]
            /\ UNCHANGED isOnline
    /\ reply' = NoReply
    /\ UNCHANGED <<connectedUsers, location>>
    /\ UNCHANGED <<clock, alerts, timers, req, rewards, stats, dispatchVars, ledgerVars>>
    /\ found' = NoResult
    /\ given' = NoLocationGiven
    /\ UNCHANGED communityVars

\* an unregistration that also cancels the alerts of the user and their timers
DisconnectUnregister_CancelsAlerts(s) ==
    /\ sockets[s].pc = "unregister"
    /\ connectedUsers' = [connectedUsers EXCEPT ![sockets[s].user] = NoSocket]
    /\ sockets' = [sockets EXCEPT ![s].pc = "closed"]
    /\ alerts' = [a \in 1..Len(alerts) |->
                      IF alerts[a].user = sockets[s].user /\ alerts[a].status # "resolved"
                      THEN [alerts[a] EXCEPT !.status = "cancelled"] ELSE alerts[a]]
    /\ timers' = [a \in AlertIds |->
                      IF a <= Len(alerts) /\ alerts[a].user = sockets[s].user
                      THEN NoTimer ELSE timers[a]]
    /\ reply' = NoReply
    /\ UNCHANGED <<isOnline, location>>
    /\ UNCHANGED <<clock, req, rewards, stats, dispatchVars, ledgerVars>>
    /\ found' = NoResult
    /\ given' = NoLocationGiven
    /\ UNCHANGED communityVars

\* connectedUsers.delete(socket.userId); broadcast 'user-offline'
DisconnectUnregister(s) ==
    /\ sockets[s].pc = "unregister"
    /\ connectedUsers' = [connectedUsers EXCEPT ![sockets[s].user] = NoSocket]
    /\ sockets' = [sockets EXCEPT ![s].pc = "closed"]
    /\ reply' = NoReply
    /\ UNCHANGED <<isOnline, location>>
    /\ UNCHANGED <<clock, alerts, timers, req, rewards, stats, dispatchVars, ledgerVars>>
    /\ found' = NoResult
    /\ given' = NoLocationGiven
    /\ UNCHANGED communityVars

\* user u has a connection on which the socket.on(...) listeners are registered
Listening(u) ==
    \E s \in SocketIds : sockets[s].user = u /\ sockets[s].live /\ sockets[s].pc = "ready"

\* socket.on('location-update'): User.findByIdAndUpdate(currentLocation)
LocationUpdate(u, p) ==
    /\ Listening(u)
    /\ location[u] # p
    /\ IF Falsy(p)
       THEN UNCHANGED location    \* emit 'error': Invalid location data
       ELSE location' = [location EXCEPT ![u] = p]
    /\ reply' = NoReply
    /\ UNCHANGED <<sockets, connectedUsers, isOnline>>
    /\ UNCHANGED <<clock, alerts, timers, req, rewards, stats, dispatchVars, ledgerVars>>
    /\ found' = NoResult
    /\ given' = NoLocationGiven
    /\ UNCHANGED communityVars

\* ------------------------------------------------------ User.findNearby
\* the great-circle distance of two places of the model
Distance(p, q) == IF p >= q THEN p - q ELSE q - p

\* the users a $near query with $maxDistance matches
NearbySet(p, maxDistance, includeOffline) ==
    {u \in Users : /\ Distance(location[u], p) <= maxDistance
                   /\ (includeOffline \/ isOnline[u])}

\* $near returns its matches nearest first (equal distances here by user id)
RECURSIVE NearestFirst(_, _)
NearestFirst(S, p) ==
    IF S = {} THEN <<>>
    ELSE LET m == CHOOSE u \in S : \A v \in S :
                      \/ Distance(location[u], p) < Distance(location[v], p)
                      \/ (Distance(location[u], p) = Distance(location[v], p) /\ u <= v)
         IN <<m>> \o NearestFirst(S \ {m}, p)

\* the values a caller may pass as options.includeOffline: nothing, the
\* booleans, the string 'true' and the number 1
OptionValues == {"undefined", "true", "false", "'true'", "1"}

\* a findNearby that takes every truthy option as true
FindNearby_TruthyOption(p, maxDistance, option) ==
    NearestFirst(NearbySet(p, maxDistance, option \in {"true", "'true'", "1"}), p)

\* const includeOffline = options.includeOffline === true
FindNearby(p, maxDistance, option) ==
    NearestFirst(NearbySet(p, maxDistance, option = "true"), p)

\* a call of User.findNearby by any caller, answered with the list
FindNearbyCall(p, maxDistance, option) ==
    /\ reply' = "findNearby"
    /\ found' = FindNearby(p, maxDistance, option)
    /\ given' = NoLocationGiven
    /\ UNCHANGED communityVars
    /\ UNCHANGED <<clock, alerts, timers, req, rewards, stats>>
    /\ UNCHANGED <<sockets, connectedUsers, isOnline, location>>
    /\ UNCHANGED <<pushes, fanout, notify, achievements, leaderboard>>

\* ------------------------------------------- scheduleAutoResolve (model)
\* setTimeout(..., 30 min) closing over the document `this` of the creating
\* handler; that document's status is the schema default and no other
\* handler ever holds the same object.
ScheduleAutoResolve(now) ==
    [state |-> "pending", due |-> now + THIRTY_MINUTES, status |-> "active"]

\* the callback runs: the test of this.status, the assignments, save() issued
AutoResolveTimerFired(a) ==
    /\ timers[a].state = "pending"
    /\ clock >= timers[a].due
    /\ IF timers[a].status = "active"
       THEN timers' = [timers EXCEPT ![a].state = "saving", ![a].status = "resolved"]
       ELSE timers' = [timers EXCEPT ![a].state = "done"]
    /\ reply' = NoReply
    /\ UNCHANGED <<clock, alerts, req, rewards, stats>>
    /\ UNCHANGED <<presenceVars, dispatchVars, ledgerVars>>
    /\ found' = NoResult
    /\ given' = NoLocationGiven
    /\ UNCHANGED communityVars

\* this.save() reaches the store: $set of status, autoResolved, resolvedAt
AutoResolveSave(a) ==
    /\ timers[a].state = "saving"
    /\ alerts' = [alerts EXCEPT ![a].status = "resolved",
                                ![a].autoResolved = TRUE,
                                ![a].resolvedAt = clock]
    /\ timers' = [timers EXCEPT ![a].state = "done"]
    /\ reply' = NoReply
    /\ UNCHANGED <<clock, req, rewards, stats>>
    /\ UNCHANGED <<presenceVars, dispatchVars, ledgerVars>>
    /\ found' = NoResult
    /\ given' = NoLocationGiven
    /\ UNCHANGED communityVars

\* ------------------------------------------------- POST /api/emergency/alert
\* a lookup that also matches the alerts that are responded
RecentAlert_AnyOpen(u, now) ==
    \E a \in 1..Len(alerts) :
        /\ alerts[a].user = u
        /\ alerts[a].status \in {"active", "responded"}
        /\ alerts[a].createdAt >= now - FIVE_MINUTES

\* findOne({user, status: 'active', createdAt: {$gte: now - 5 min}})
RecentAlert(u, now) ==
    \E a \in 1..Len(alerts) :
        /\ alerts[a].user = u
        /\ alerts[a].status = "active"
        /\ alerts[a].createdAt >= now - FIVE_MINUTES

\* the route up to its first await: 400 on !location.latitude or
\* !location.longitude, then the findOne and 400 on a recent active alert
HttpAlertCheck(r, u, loc) ==
    /\ Free(r)
    /\ IF Falsy(loc)
       THEN /\ reply' = "TypeAndLocationRequired"
            /\ UNCHANGED req
       ELSE IF RecentAlert(u, clock)
       THEN /\ reply' = "DuplicateActiveAlert"
            /\ UNCHANGED req
       ELSE /\ req' = [req EXCEPT ![r] = [Idle EXCEPT !.pc = "insert", !.kind = "httpAlert",
                                                  !.user = u, !.loc = loc]]
            /\ reply' = NoReply
    /\ UNCHANGED <<clock, alerts, timers, rewards, stats>>
    /\ UNCHANGED <<presenceVars, dispatchVars, ledgerVars>>
    /\ found' = NoResult
    /\ given' = loc
    /\ UNCHANGED communityVars

\* the store takes a Point under the 2dsphere index of the collection only
\* with longitude and latitude inside the bounds of the globe
ValidPoint(loc) == loc \in 0..WorldEdge

\* await alert.save(); a rejection of the insert reaches the route's catch: 500
HttpAlertSave(r) ==
    /\ req[r].pc = "insert"
    /\ req[r].kind = "httpAlert"
    /\ IF ValidPoint(req[r].loc)
       THEN /\ alerts' = Append(alerts, NewAlert(req[r].user, clock, req[r].loc))
            /\ req' = [req EXCEPT ![r].pc = "schedule", ![r].alert = Len(alerts) + 1]
            /\ reply' = NoReply
       ELSE /\ req' = [req EXCEPT ![r] = Idle]
            /\ reply' = "Failed"
            /\ UNCHANGED alerts
    /\ UNCHANGED <<clock, timers, rewards, stats>>
    /\ UNCHANGED <<presenceVars, dispatchVars, ledgerVars>>
    /\ found' = NoResult
    /\ given' = NoLocationGiven
    /\ UNCHANGED communityVars

\* notifyContacts awaited by the route and without its catch blocks: a failing
\* contact lookup reaches the route's catch and the request answers 500
HttpAlertSchedule_AwaitsNotify(r) ==
    /\ req[r].pc = "schedule"
    /\ req[r].kind = "httpAlert"
    /\ timers' = [timers EXCEPT ![req[r].alert] = ScheduleAutoResolve(clock)]
    /\ \E answered \in BOOLEAN :
          /\ notify' = [notify EXCEPT ![req[r].alert] =
                            IF answered THEN "simulated" ELSE "error-logged"]
          /\ reply' = IF answered THEN "AlertCreated" ELSE "Failed"
    /\ req' = [req EXCEPT ![r] = Idle]
    /\ UNCHANGED <<clock, alerts, rewards, stats>>
    /\ UNCHANGED <<presenceVars, pushes, fanout, ledgerVars>>
    /\ found' = NoResult
    /\ given' = NoLocationGiven
    /\ UNCHANGED communityVars

\* alert.scheduleAutoResolve(); notifyContacts(alert) started and not awaited;
\* res.status(201)
HttpAlertSchedule(r) ==
    /\ req[r].pc = "schedule"
    /\ req[r].kind = "httpAlert"
    /\ timers' = [timers EXCEPT ![req[r].alert] = ScheduleAutoResolve(clock)]
    /\ notify' = [notify EXCEPT ![req[r].alert] = "lookup"]
    /\ reply' = "AlertCreated"
    /\ req' = [req EXCEPT ![r] = Idle]
    /\ UNCHANGED <<clock, alerts, rewards, stats>>
    /\ UNCHANGED <<presenceVars, pushes, fanout, ledgerVars>>
    /\ found' = NoResult
    /\ given' = NoLocationGiven
    /\ UNCHANGED communityVars

\* ------------------------------------------------------- notifyContacts
\* Started unawaited by POST /alert, inside its own try/catch.
\* await User.findById(alert.user): a rejection goes to the outer catch, which
\* logs it; otherwise the Twilio branch is taken if the three TWILIO_*
\* variables are set, else the logged simulation.
NotifyLookup(a, answered, configured) ==
    /\ notify[a] = "lookup"
    /\ notify' = [notify EXCEPT ![a] = IF ~answered THEN "error-logged"
                                       ELSE IF configured THEN "import"
                                       ELSE "simulated"]
    /\ reply' = NoReply
    /\ UNCHANGED <<clock, alerts, timers, req, rewards, stats>>
    /\ UNCHANGED <<presenceVars, pushes, fanout, ledgerVars>>
    /\ found' = NoResult
    /\ given' = NoLocationGiven
    /\ UNCHANGED communityVars

\* await import('twilio'): a failure is caught and falls to the simulation
NotifyImport(a, loaded) ==
    /\ notify[a] = "import"
    /\ notify' = [notify EXCEPT ![a] = IF loaded THEN "sending" ELSE "simulated"]
    /\ reply' = NoReply
    /\ UNCHANGED <<clock, alerts, timers, req, rewards, stats>>
    /\ UNCHANGED <<presenceVars, pushes, fanout, ledgerVars>>
    /\ found' = NoResult
    /\ given' = NoLocationGiven
    /\ UNCHANGED communityVars

\* the SMS, WhatsApp and call attempts, each in its own try/catch; return
NotifySend(a, delivered) ==
    /\ notify[a] = "sending"
    /\ notify' = [notify EXCEPT ![a] = IF delivered THEN "sent" ELSE "send-failed"]
    /\ reply' = NoReply
    /\ UNCHANGED <<clock, alerts, timers, req, rewards, stats>>
    /\ UNCHANGED <<presenceVars, pushes, fanout, ledgerVars>>
    /\ found' = NoResult
    /\ given' = NoLocationGiven
    /\ UNCHANGED communityVars

\* ------------------------------------------- socket.on('emergency-alert')
\* new EmergencyAlert(...); await emergency.save()
\* location.longitude of a missing location throws, and a rejected insert
\* throws: both reach the catch, which emits 'Failed to send emergency alert'
SocketAlertSave(r, u, loc) ==
    /\ Free(r)
    /\ IF loc # NoLocationGiven /\ ValidPoint(loc)
       THEN /\ alerts' = Append(alerts, NewAlert(u, clock, loc))
            /\ req' = [req EXCEPT ![r] = [Idle EXCEPT !.pc = "lookup", !.kind = "socketAlert",
                                                      !.user = u, !.alert = Len(alerts) + 1,
                                                      !.loc = loc]]
            /\ reply' = NoReply
       ELSE /\ reply' = "Failed"
            /\ UNCHANGED <<alerts, req>>
    /\ UNCHANGED <<clock, timers, rewards, stats>>
    /\ UNCHANGED <<presenceVars, dispatchVars, ledgerVars>>
    /\ found' = NoResult
    /\ given' = loc
    /\ UNCHANGED communityVars

\* await User.findNearby(...) returns: notify, scheduleAutoResolve, emit
\* the alert emitted to the user's socket and once more to a room of the user
FanoutTargets_SocketAndRoom(nearbyUsers, reporter) ==
    LET Sent(u) == /\ connectedUsers[u] # NoSocket
                   /\ ~StrictEquals(toString(ObjectId(u)), SocketUserId(reporter))
    IN SelectSeq(nearbyUsers, Sent) \o SelectSeq(nearbyUsers, Sent)

\* the forEach over nearbyUsers: a user is sent the alert if connectedUsers
\* holds an entry for the user and the user is not the reporter
FanoutTargets(nearbyUsers, reporter) ==
    LET Sent(u) == /\ connectedUsers[u] # NoSocket
                   /\ ~StrictEquals(toString(ObjectId(u)), SocketUserId(reporter))
    IN SelectSeq(nearbyUsers, Sent)

SocketAlertNearby(r) ==
    /\ req[r].pc = "lookup"
    /\ LET a == req[r].alert
           nearbyUsers == FindNearby(alerts[a].location, TEN_KM, "undefined")
       IN /\ pushes' = [pushes EXCEPT ![a] = @ \o FanoutTargets(nearbyUsers, req[r].user)]
          /\ fanout' = [fanout EXCEPT ![a] = TRUE]
          /\ timers' = [timers EXCEPT ![a] = ScheduleAutoResolve(clock)]
          \* emit 'emergency-alert-sent' {notifiedUsers: nearbyUsers.length}
          /\ found' = nearbyUsers
    /\ reply' = "AlertCreated"
    /\ req' = [req EXCEPT ![r] = Idle]
    /\ UNCHANGED <<clock, alerts, rewards, stats>>
    /\ UNCHANGED <<presenceVars, notify, ledgerVars>>
    /\ given' = NoLocationGiven
    /\ UNCHANGED communityVars

\* await User.findNearby(...) rejects: the catch block
SocketAlertNearbyFails(r) ==
    /\ req[r].pc = "lookup"
    /\ reply' = "Failed"
    /\ req' = [req EXCEPT ![r] = Idle]
    /\ UNCHANGED <<clock, alerts, timers, rewards, stats>>
    /\ UNCHANGED <<presenceVars, dispatchVars, ledgerVars>>
    /\ found' = NoResult
    /\ given' = NoLocationGiven
    /\ UNCHANGED communityVars

\* ------------------------------------------ POST /api/emergency/respond/:alertId
\* the guards of the route on the loaded document, in the order of the code;
\* both identity tests compare a toString() with req.user.id
HttpRespondCheck(doc, u) ==
    IF doc.status # "active" THEN "AlertNotActive"
    ELSE IF StrictEquals(toString(ObjectId(doc.user)), ReqUserId(u))
         THEN "SelfResponseNotAllowed"
    ELSE IF \E i \in 1..Len(doc.responders) :
                StrictEquals(toString(ObjectId(doc.responders[i])), ReqUserId(u))
         THEN "DuplicateResponse"
    ELSE "ok"

\* the guard of the socket handler: `!alert || alert.status !== 'active'`
SocketRespondCheck(doc, u) ==
    IF doc.status # "active" THEN "AlertNotFoundOrNotActive" ELSE "ok"

\* alert.responders.push({user}); alert.status = 'responded'; save():
\* a $push of the new responder and a $set of status on the stored document
SaveResponse(doc, u) ==
    [doc EXCEPT !.responders = Append(@, u), !.status = "responded"]

\* await EmergencyAlert.findById(alertId), then the guards
RespondLoad(r, u, a, k) ==
    /\ Free(r)
    /\ LET res == IF ~Exists(a)
                  THEN IF k = "httpRespond" THEN "AlertNotFound" ELSE "AlertNotFoundOrNotActive"
                  ELSE IF k = "httpRespond" THEN HttpRespondCheck(alerts[a], u)
                  ELSE SocketRespondCheck(alerts[a], u)
       IN IF res = "ok"
          THEN /\ req' = [req EXCEPT ![r] = [Idle EXCEPT !.pc = "save", !.kind = "respond",
                                                         !.user = u, !.alert = a]]
               /\ reply' = NoReply
          ELSE /\ reply' = res
               /\ UNCHANGED req
    /\ UNCHANGED <<clock, alerts, timers, rewards, stats>>
    /\ UNCHANGED <<presenceVars, dispatchVars, ledgerVars>>
    /\ found' = NoResult
    /\ given' = NoLocationGiven
    /\ UNCHANGED communityVars

HttpRespondLoad(r, u, a) == RespondLoad(r, u, a, "httpRespond")

SocketRespondLoad(r, u, a) == RespondLoad(r, u, a, "socketRespond")

\* a save of the response that also restarts the 30 minutes of the alert
RespondSave_RestartsTimer(r) ==
    /\ req[r].pc = "save"
    /\ req[r].kind = "respond"
    /\ alerts' = [alerts EXCEPT ![req[r].alert] = SaveResponse(@, req[r].user)]
    /\ timers' = [timers EXCEPT ![req[r].alert] =
                      IF @.state = "pending" THEN ScheduleAutoResolve(clock) ELSE @]
    /\ req' = [req EXCEPT ![r].pc = "reward"]
    /\ reply' = NoReply
    /\ UNCHANGED <<clock, rewards, stats>>
    /\ UNCHANGED <<presenceVars, dispatchVars, ledgerVars>>
    /\ found' = NoResult
    /\ given' = NoLocationGiven
    /\ UNCHANGED communityVars

\* await alert.save()
RespondSave(r) ==
    /\ req[r].pc = "save"
    /\ req[r].kind = "respond"
    /\ alerts' = [alerts EXCEPT ![req[r].alert] = SaveResponse(@, req[r].user)]
    /\ req' = [req EXCEPT ![r].pc = "reward"]
    /\ reply' = NoReply
    /\ UNCHANGED <<clock, timers, rewards, stats>>
    /\ UNCHANGED <<presenceVars, dispatchVars, ledgerVars>>
    /\ found' = NoResult
    /\ given' = NoLocationGiven
    /\ UNCHANGED communityVars

\* the catch block of a Respond handler after a rejected await at step pc:
\* 500 'Failed to send response' / emit 'error'; nothing is undone
RespondFails(r, pc) ==
    /\ req[r].kind = "respond"
    /\ req[r].pc = pc
    /\ reply' = "Failed"
    /\ req' = [req EXCEPT ![r] = Idle]
    /\ UNCHANGED <<clock, alerts, timers, rewards, stats>>
    /\ UNCHANGED <<presenceVars, dispatchVars, ledgerVars>>
    /\ found' = NoResult
    /\ given' = NoLocationGiven
    /\ UNCHANGED communityVars

\* await alert.save() rejects
RespondSaveFails(r) == RespondFails(r, "save")

\* await reward.save() rejects
RespondRewardFails(r) == RespondFails(r, "reward")

\* await User.findByIdAndUpdate(...) rejects
RespondStatsFails(r) == RespondFails(r, "stats")

\* await reward.save(): a new emergency_response record of 50 points
RespondReward(r) ==
    /\ req[r].pc = "reward"
    /\ rewards' = [rewards EXCEPT ![req[r].user][req[r].alert] = @ + 1]
    /\ req' = [req EXCEPT ![r].pc = "stats"]
    /\ reply' = NoReply
    /\ UNCHANGED <<clock, alerts, timers, stats>>
    /\ UNCHANGED <<presenceVars, dispatchVars, ledgerVars>>
    /\ found' = NoResult
    /\ given' = NoLocationGiven
    /\ UNCHANGED communityVars

\* await User.findByIdAndUpdate($inc helpCount, rewardPoints); the success reply
RespondStats(r) ==
    /\ req[r].pc = "stats"
    /\ stats' = [stats EXCEPT ![req[r].user].helpCount = @ + 1,
                              ![req[r].user].rewardPoints = @ + RESPONSE_POINTS]
    /\ reply' = "ResponseSent"
    /\ req' = [req EXCEPT ![r] = Idle]
    /\ UNCHANGED <<clock, alerts, timers, rewards>>
    /\ UNCHANGED <<presenceVars, dispatchVars, ledgerVars>>
    /\ found' = NoResult
    /\ given' = NoLocationGiven
    /\ UNCHANGED communityVars

\* ------------------------------------------------- POST /api/rewards/claim
\* getMaxPointsForActivity('emergency_response')
MAX_EMERGENCY_POINTS == 100

\* the achievements whose condition holds for activityType emergency_response
AchievementDefs ==
    [first_responder  |-> [target |-> 1,  points |-> 25],
     hero_responder   |-> [target |-> 10, points |-> 100],
     community_helper |-> [target |-> 5,  points |-> 50]]

AchievementIds == DOMAIN AchievementDefs

\* the points a request body may carry
ClaimPoints ==
    {0, RESPONSE_POINTS, MAX_EMERGENCY_POINTS, MAX_EMERGENCY_POINTS + RESPONSE_POINTS}

\* the validation of the body and the duplicate lookup Reward.findOne({user,
\* activityType, relatedActivity}); here activityType is emergency_response and
\* relatedActivity is alert a
ClaimCheck(u, a, points) ==
    IF points = 0 THEN "MissingFields"
    ELSE IF points > MAX_EMERGENCY_POINTS THEN "TooManyPoints"
    ELSE IF rewards[u][a] > 0 THEN "AlreadyClaimed"
    ELSE "ok"

ClaimLoad(r, u, a, points) ==
    /\ Free(r)
    /\ LET res == ClaimCheck(u, a, points)
       IN IF res = "ok"
          THEN /\ req' = [req EXCEPT ![r] = [pc |-> "claimSave", kind |-> "claim", user |-> u,
                                              alert |-> a, points |-> points, loc |-> NoLocationGiven]]
               /\ reply' = NoReply
          ELSE /\ reply' = res
               /\ UNCHANGED req
    /\ UNCHANGED <<clock, alerts, timers, rewards, stats>>
    /\ UNCHANGED <<presenceVars, dispatchVars, ledgerVars>>
    /\ found' = NoResult
    /\ given' = NoLocationGiven
    /\ UNCHANGED communityVars

\* await reward.save()
ClaimSave(r) ==
    /\ req[r].pc = "claimSave"
    /\ rewards' = [rewards EXCEPT ![req[r].user][req[r].alert] = @ + 1]
    /\ req' = [req EXCEPT ![r].pc = "claimStats"]
    /\ reply' = NoReply
    /\ UNCHANGED <<clock, alerts, timers, stats>>
    /\ UNCHANGED <<presenceVars, dispatchVars, ledgerVars>>
    /\ found' = NoResult
    /\ given' = NoLocationGiven
    /\ UNCHANGED communityVars

\* await User.findByIdAndUpdate($inc stats.rewardPoints: points)
ClaimStats(r) ==
    /\ req[r].pc = "claimStats"
    /\ stats' = [stats EXCEPT ![req[r].user].rewardPoints = @ + req[r].points]
    /\ req' = [req EXCEPT ![r].pc = "claimLedger"]
    /\ reply' = NoReply
    /\ UNCHANGED <<clock, alerts, timers, rewards>>
    /\ UNCHANGED <<presenceVars, dispatchVars, ledgerVars>>
    /\ found' = NoResult
    /\ given' = NoLocationGiven
    /\ UNCHANGED communityVars

\* the points of the achievements that one more step of progress completes
RECURSIVE AchievementBonus(_, _)
AchievementBonus(progress, ids) ==
    IF ids = {} THEN 0
    ELSE LET k == CHOOSE x \in ids : TRUE
             d == AchievementDefs[k]
         IN (IF progress[k] < d.target /\ progress[k] + 1 >= d.target THEN d.points ELSE 0)
            + AchievementBonus(progress, ids \ {k})

\* updateUserLeaderboards: $inc score; checkAndUpdateAchievements: every
\* achievement not yet completed moves one step and a completed one is awarded
\* with an 'achievement' reward and $inc stats.rewardPoints; the success reply
ClaimLedger(r) ==
    /\ req[r].pc = "claimLedger"
    /\ LET u == req[r].user
           progress == achievements[u]
       IN /\ leaderboard' = [leaderboard EXCEPT ![u] = @ + req[r].points]
          /\ achievements' = [achievements EXCEPT ![u] =
                [k \in AchievementIds |->
                    IF progress[k] < AchievementDefs[k].target
                    THEN progress[k] + 1 ELSE progress[k]]]
          /\ stats' = [stats EXCEPT ![u].rewardPoints =
                          @ + AchievementBonus(progress, AchievementIds)]
    /\ reply' = "RewardClaimed"
    /\ req' = [req EXCEPT ![r] = Idle]
    /\ UNCHANGED <<clock, alerts, timers, rewards>>
    /\ UNCHANGED <<presenceVars, dispatchVars>>
    /\ found' = NoResult
    /\ given' = NoLocationGiven
    /\ UNCHANGED communityVars

\* ------------------------------------------- PUT /api/emergency/resolve/:alertId
\* the authorization test left out: every user may resolve
CanResolve_AnyUser(doc, u) == TRUE

\* only alert creator or responders can resolve:
\* alert.user.toString() === req.user.id || responders.some(... === req.user.id)
CanResolve(doc, u) ==
    \/ StrictEquals(toString(ObjectId(doc.user)), ReqUserId(u))
    \/ \E i \in 1..Len(doc.responders) :
          StrictEquals(toString(ObjectId(doc.responders[i])), ReqUserId(u))

ResolveCheck(doc, u) ==
    IF ~CanResolve(doc, u) THEN "NotAuthorizedToResolve"
    ELSE IF doc.status = "resolved" THEN "AlreadyResolved"
    ELSE "ok"

\* status, resolvedAt and resolvedBy are the modified paths of the save
SaveResolve(doc, u, now) ==
    [doc EXCEPT !.status = "resolved", !.resolvedAt = now, !.resolvedBy = u]

\* await EmergencyAlert.findById(alertId), the guards, the assignments
ResolveLoad(r, u, a) ==
    /\ Free(r)
    /\ LET res == IF ~Exists(a) THEN "AlertNotFound" ELSE ResolveCheck(alerts[a], u)
       IN IF res = "ok"
          THEN /\ req' = [req EXCEPT ![r] = [Idle EXCEPT !.pc = "save", !.kind = "resolve",
                                                         !.user = u, !.alert = a]]
               /\ reply' = NoReply
          ELSE /\ reply' = res
               /\ UNCHANGED req
    /\ UNCHANGED <<clock, alerts, timers, rewards, stats>>
    /\ UNCHANGED <<presenceVars, dispatchVars, ledgerVars>>
    /\ found' = NoResult
    /\ given' = NoLocationGiven
    /\ UNCHANGED communityVars

\* await alert.save(); res.json(success)
ResolveSave(r) ==
    /\ req[r].pc = "save"
    /\ req[r].kind = "resolve"
    /\ alerts' = [alerts EXCEPT ![req[r].alert] = SaveResolve(@, req[r].user, clock)]
    /\ reply' = "AlertResolved"
    /\ req' = [req EXCEPT ![r] = Idle]
    /\ UNCHANGED <<clock, timers, rewards, stats>>
    /\ UNCHANGED <<presenceVars, dispatchVars, ledgerVars>>
    /\ found' = NoResult
    /\ given' = NoLocationGiven
    /\ UNCHANGED communityVars

\* ------------------------------------------------ GET /api/auth/nearby-users
\* the radii a query may ask for
Radii == {GridMeters, TEN_KM}

\* nearbyUsers.filter(user => user._id.toString() !== req.user.id)
WithoutRequester(users, u) ==
    LET Other(v) == ~StrictEquals(toString(ObjectId(v)), ReqUserId(u))
    IN SelectSeq(users, Other)

\* the route: 400 without longitude or latitude, else the filtered findNearby
NearbyUsers(u, p, radius, includeOffline) ==
    /\ IF p = NoLocationGiven
       THEN /\ reply' = "LocationRequired"
            /\ found' = NoResult
       ELSE /\ reply' = "NearbyUsers"
            /\ found' = WithoutRequester(FindNearby(p, radius,
                                   IF includeOffline THEN "true" ELSE "false"), u)
    /\ UNCHANGED <<clock, alerts, timers, req, rewards, stats>>
    /\ UNCHANGED <<presenceVars, dispatchVars, ledgerVars>>
    /\ given' = NoLocationGiven
    /\ UNCHANGED communityVars

\* ------------------------------------------------ GET /api/emergency/nearby
QUERY_LIMIT == 20

\* a filter without the status condition
NearbyAlertMatches_AnyStatus(a, u, p, radius) ==
    /\ ObjectId(alerts[a].user) # ReqUserId(u)
    /\ Distance(alerts[a].location, p) <= radius

\* find({status: 'active', user: {$ne: req.user.id}, location: {$near, $maxDistance}})
NearbyAlertMatches(a, u, p, radius) ==
    /\ alerts[a].status = "active"
    /\ ObjectId(alerts[a].user) # ReqUserId(u)
    /\ Distance(alerts[a].location, p) <= radius

\* .sort({createdAt: -1}); alerts of one minute by descending _id
RECURSIVE NewestFirst(_)
NewestFirst(S) ==
    IF S = {} THEN <<>>
    ELSE LET m == CHOOSE a \in S : \A b \in S :
                      \/ alerts[a].createdAt > alerts[b].createdAt
                      \/ (alerts[a].createdAt = alerts[b].createdAt /\ a >= b)
         IN <<m>> \o NewestFirst(S \ {m})

\* .limit(n)
Limit(list, n) == IF Len(list) <= n THEN list ELSE SubSeq(list, 1, n)

\* the route: 400 without latitude or longitude, else the query
QueryNearbyAlerts(u, p, radius) ==
    /\ IF p = NoLocationGiven
       THEN /\ reply' = "CoordinatesRequired"
            /\ found' = NoResult
       ELSE /\ reply' = "NearbyAlerts"
            /\ found' = Limit(NewestFirst({a \in 1..Len(alerts) :
                                               NearbyAlertMatches(a, u, p, radius)}),
                              QUERY_LIMIT)
    /\ UNCHANGED <<clock, alerts, timers, req, rewards, stats>>
    /\ UNCHANGED <<presenceVars, dispatchVars, ledgerVars>>
    /\ given' = NoLocationGiven
    /\ UNCHANGED communityVars

\* ------------------------------------------------ POST /api/rewards/redeem
\* the enum of rewardSchema.activityType
ActivityTypes ==
    {"emergency_response", "breakdown_help", "route_sharing", "safety_report",
     "community_help", "ride_completion", "daily_login", "profile_completion",
     "referral", "eco_riding", "group_ride_leader", "first_aid_certified"}

\* the validators save() runs on a Reward: the enum of activityType, min: 0 of points
ValidReward(doc) == doc.activityType \in ActivityTypes /\ doc.points >= 0

\* new Reward({user, activityType: 'redemption', points: -pointsCost, ...})
Redemption(u, pointsCost) ==
    [user |-> u, activityType |-> "redemption", points |-> 0 - pointsCost]

\* the pointsCost a request body may carry
PointsCosts == {RESPONSE_POINTS, MAX_EMERGENCY_POINTS}

\* await User.findById(req.user.id) and the balance test
RedeemLoad(r, u, pointsCost) ==
    /\ Free(r)
    /\ IF stats[u].rewardPoints < pointsCost
       THEN /\ reply' = "InsufficientPoints"
            /\ UNCHANGED req
       ELSE /\ req' = [req EXCEPT ![r] = [pc |-> "deduct", kind |-> "redeem", user |-> u,
                                           alert |-> 0, points |-> pointsCost, loc |-> NoLocationGiven]]
            /\ reply' = NoReply
    /\ UNCHANGED <<clock, alerts, timers, rewards, stats>>
    /\ UNCHANGED <<presenceVars, dispatchVars, ledgerVars>>
    /\ found' = NoResult
    /\ given' = NoLocationGiven
    /\ UNCHANGED communityVars

\* await User.findByIdAndUpdate($inc stats.rewardPoints: -pointsCost)
RedeemDeduct(r) ==
    /\ req[r].pc = "deduct"
    /\ stats' = [stats EXCEPT ![req[r].user].rewardPoints = @ - req[r].points]
    /\ req' = [req EXCEPT ![r].pc = "record"]
    /\ reply' = NoReply
    /\ UNCHANGED <<clock, alerts, timers, rewards>>
    /\ UNCHANGED <<presenceVars, dispatchVars, ledgerVars>>
    /\ found' = NoResult
    /\ given' = NoLocationGiven
    /\ UNCHANGED communityVars

\* await User.findByIdAndUpdate(...) rejects: the catch answers 500
RedeemDeductFails(r) ==
    /\ req[r].pc = "deduct"
    /\ reply' = "RedeemFailed"
    /\ req' = [req EXCEPT ![r] = Idle]
    /\ UNCHANGED <<clock, alerts, timers, rewards, stats>>
    /\ UNCHANGED <<presenceVars, dispatchVars, ledgerVars>>
    /\ found' = NoResult
    /\ given' = NoLocationGiven
    /\ UNCHANGED communityVars

\* await redemption.save(): the record is stored when it passes validation and
\* the route answers success, else save() rejects and the catch answers 500
RedeemRecord(r) ==
    /\ req[r].pc = "record"
    /\ LET doc == Redemption(req[r].user, req[r].points)
       IN IF ValidReward(doc)
          THEN /\ redemptions' = Append(redemptions, doc)
               /\ reply' = "PointsRedeemed"
          ELSE /\ UNCHANGED redemptions
               /\ reply' = "RedeemFailed"
    /\ req' = [req EXCEPT ![r] = Idle]
    /\ UNCHANGED <<clock, alerts, timers, rewards, stats>>
    /\ UNCHANGED <<presenceVars, dispatchVars, ledgerVars>>
    /\ found' = NoResult
    /\ given' = NoLocationGiven
    /\ UNCHANGED <<rooms, rides, riders>>

\* ------------------------------------------------------------ chat rooms
\* the schema default of ChatRoom.settings.maxParticipants
MAX_PARTICIPANTS == 50

RoomIds == 1..MaxRooms

\* The participants list of a room is held as the number of its entries per
\* user: the handlers test membership and length and push, none reads the
\* order.  The creator's entry has role 'admin', every pushed entry 'member'.
\* POST /rooms without a participants array: the room of the creator alone,
\* with the schema defaults of settings
NewRoom(creator) ==
    [participants |-> [p \in Users |-> IF p = creator THEN 1 ELSE 0],
     admin |-> creator,
     settings |-> [allowNewMembers |-> TRUE, maxParticipants |-> MAX_PARTICIPANTS]]

RoomExists(k) == k \in 1..Len(rooms)

RECURSIVE SumOver(_, _)
SumOver(f, S) ==
    IF S = {} THEN 0
    ELSE LET x == CHOOSE y \in S : TRUE IN f[x] + SumOver(f, S \ {x})

\* room.participants.length
ParticipantsLength(room) == SumOver(room.participants, Users)

\* room.participants.some(p => p.user.toString() === id)
IsParticipant(room, id) ==
    \E p \in Users : room.participants[p] > 0 /\ StrictEquals(toString(ObjectId(p)), id)

\* room.participants.find(p => p.user.toString() === id) has role admin or moderator
IsAdmin(room, id) ==
    \E p \in Users :
        /\ room.participants[p] > 0
        /\ StrictEquals(toString(ObjectId(p)), id)
        /\ p = room.admin

\* number of entries of list equal to x
Occurrences(list, x) == Cardinality({i \in 1..Len(list) : list[i] = x})

\* a handler that has pushed toAdd onto its copy of room k and awaits room.save()
RoomRequest(kind, u, k, toAdd) ==
    [pc |-> "roomSave", kind |-> kind, user |-> u, alert |-> 0, points |-> 0,
     loc |-> NoLocationGiven, room |-> k, toAdd |-> toAdd]

\* POST /api/chat/rooms: await chatRoom.save()
CreateRoom(u) ==
    /\ Len(rooms) < MaxRooms
    /\ rooms' = Append(rooms, NewRoom(u))
    /\ reply' = "RoomCreated"
    /\ UNCHANGED <<clock, alerts, timers, req, rewards, stats>>
    /\ UNCHANGED <<presenceVars, dispatchVars, ledgerVars>>
    /\ found' = NoResult
    /\ given' = NoLocationGiven
    /\ UNCHANGED <<redemptions, rides, riders>>

\* POST /rooms/:roomId/join up to room.participants.push(...)
HttpJoinCheck(u, k) ==
    IF ~RoomExists(k) THEN "RoomNotFound"
    ELSE IF ~rooms[k].settings.allowNewMembers THEN "NoNewMembers"
    ELSE IF IsParticipant(rooms[k], ReqUserId(u)) THEN "AlreadyMember"
    ELSE IF ParticipantsLength(rooms[k]) >= rooms[k].settings.maxParticipants THEN "RoomFull"
    ELSE "ok"

HttpJoinLoad(r, u, k) ==
    /\ Free(r)
    /\ LET res == HttpJoinCheck(u, k)
       IN IF res = "ok"
          THEN /\ req' = [req EXCEPT ![r] = RoomRequest("join", u, k, <<u>>)]
               /\ reply' = NoReply
          ELSE /\ reply' = res
               /\ UNCHANGED req
    /\ UNCHANGED <<clock, alerts, timers, rewards, stats>>
    /\ UNCHANGED <<presenceVars, dispatchVars, ledgerVars>>
    /\ found' = NoResult
    /\ given' = NoLocationGiven
    /\ UNCHANGED communityVars

\* the participants arrays a request body of POST /rooms/:roomId/add may carry
AddLists == {<<>>, <<NumUsers>>, <<NumUsers, NumUsers>>}

\* cleaned.filter(id => !existingIds.includes(id)): both sides are strings
ToAdd(room, list) == SelectSeq(list, LAMBDA id : room.participants[id] = 0)

\* POST /rooms/:roomId/add up to the forEach that pushes toAdd
AddCheck(u, k, list) ==
    IF Len(list) = 0 THEN "ParticipantsRequired"
    ELSE IF ~RoomExists(k) THEN "RoomNotFound"
    ELSE IF ~IsAdmin(rooms[k], ReqUserId(u)) THEN "OnlyAdmins"
    ELSE "ok"

AddLoad(r, u, k, list) ==
    /\ Free(r)
    /\ LET res == AddCheck(u, k, list)
       IN IF res = "ok"
          THEN /\ req' = [req EXCEPT ![r] = RoomRequest("add", u, k, ToAdd(rooms[k], list))]
               /\ reply' = NoReply
          ELSE /\ reply' = res
               /\ UNCHANGED req
    /\ UNCHANGED <<clock, alerts, timers, rewards, stats>>
    /\ UNCHANGED <<presenceVars, dispatchVars, ledgerVars>>
    /\ found' = NoResult
    /\ given' = NoLocationGiven
    /\ UNCHANGED communityVars

\* socket.on('join-chat-room') up to room.participants.push({user: socket.userId});
\* a participant is answered 'joined-chat-room' without a save
SocketJoinLoad(r, u, k) ==
    /\ Free(r)
    /\ IF ~RoomExists(k)
       THEN /\ reply' = "ChatRoomNotFound"
            /\ UNCHANGED req
       ELSE LET isParticipant == IsParticipant(rooms[k], SocketUserId(u))
            IN IF ~isParticipant /\ ~rooms[k].settings.allowNewMembers
               THEN /\ reply' = "NotAuthorized"
                    /\ UNCHANGED req
               ELSE IF isParticipant
               THEN /\ reply' = "joined-chat-room"
                    /\ UNCHANGED req
               ELSE /\ req' = [req EXCEPT ![r] = RoomRequest("socketJoin", u, k, <<u>>)]
                    /\ reply' = NoReply
    /\ UNCHANGED <<clock, alerts, timers, rewards, stats>>
    /\ UNCHANGED <<presenceVars, dispatchVars, ledgerVars>>
    /\ found' = NoResult
    /\ given' = NoLocationGiven
    /\ UNCHANGED communityVars

\* await room.save() of the three handlers: the store applies the $push of the
\* pushed entries to the stored list; then the handler's success answer
RoomSave(r) ==
    /\ req[r].pc = "roomSave"
    /\ rooms' = [rooms EXCEPT ![req[r].room].participants =
                    [p \in Users |-> @[p] + Occurrences(req[r].toAdd, p)]]
    /\ reply' = CASE req[r].kind = "join" -> "JoinedRoom"
                  [] req[r].kind = "add" -> "ParticipantsAdded"
                  [] OTHER -> "joined-chat-room"
    /\ req' = [req EXCEPT ![r] = Idle]
    /\ UNCHANGED <<clock, alerts, timers, rewards, stats>>
    /\ UNCHANGED <<presenceVars, dispatchVars, ledgerVars>>
    /\ found' = NoResult
    /\ given' = NoLocationGiven
    /\ UNCHANGED <<redemptions, rides, riders>>

\* ------------------------------------------------------------------ rides
RideIds == 1..MaxRides

\* status: { $in: ['planning', 'active', 'paused'] }
OpenStatuses == {"planning", "active", "paused"}

\* Ride.findOne({rider: req.user.id, status: {$in: [...]}}) finds a ride
ActiveRide(u) ==
    \E i \in 1..Len(rides) : rides[i].rider = u /\ rides[i].status \in OpenStatuses

\* new Ride({rider: req.user.id, ..., status: 'active'})
NewRide(u) == [rider |-> u, status |-> "active"]

\* start-ride handlers that have not inserted their ride yet
PendingRides ==
    Cardinality({r \in Slots : req[r].kind = "startRide" /\ req[r].pc \in {"route", "rideSave"}})

\* the model starts a ride only below a cap on the number of rides
CanStartRide == Len(rides) + PendingRides < MaxRides

\* a handler of the rides routes between two awaits
RideRequest(pc, kind, u, ride, status) ==
    [pc |-> pc, kind |-> kind, user |-> u, alert |-> 0, points |-> 0,
     loc |-> NoLocationGiven, ride |-> ride, status |-> status]

\* POST /api/gps/start-ride up to the first await after the lookup: the route
\* request when an end location is given, else ride.save()
StartRideCheck(r, u, startLocation, endLocation) ==
    /\ Free(r)
    /\ IF Falsy(startLocation)
       THEN /\ reply' = "StartLocationRequired"
            /\ UNCHANGED req
       ELSE IF ActiveRide(u)
       THEN /\ reply' = "AlreadyActiveRide"
            /\ UNCHANGED req
       ELSE /\ req' = [req EXCEPT ![r] =
                          RideRequest(IF Falsy(endLocation) THEN "rideSave" ELSE "route",
                                      "startRide", u, 0, "active")]
            /\ reply' = NoReply
    /\ UNCHANGED <<clock, alerts, timers, rewards, stats>>
    /\ UNCHANGED <<presenceVars, dispatchVars, ledgerVars>>
    /\ found' = NoResult
    /\ given' = NoLocationGiven
    /\ UNCHANGED communityVars

\* await axios.get(routeUrl): answered or failed, the handler goes on
StartRideRoute(r) ==
    /\ req[r].pc = "route"
    /\ req' = [req EXCEPT ![r].pc = "rideSave"]
    /\ reply' = NoReply
    /\ UNCHANGED <<clock, alerts, timers, rewards, stats>>
    /\ UNCHANGED <<presenceVars, dispatchVars, ledgerVars>>
    /\ found' = NoResult
    /\ given' = NoLocationGiven
    /\ UNCHANGED communityVars

\* await ride.save(): the insert
StartRideSave(r) ==
    /\ req[r].pc = "rideSave"
    /\ rides' = Append(rides, NewRide(req[r].user))
    /\ req' = [req EXCEPT ![r].pc = "rideUser", ![r].ride = Len(rides) + 1]
    /\ reply' = NoReply
    /\ UNCHANGED <<clock, alerts, timers, rewards, stats>>
    /\ UNCHANGED <<presenceVars, dispatchVars, ledgerVars>>
    /\ found' = NoResult
    /\ given' = NoLocationGiven
    /\ UNCHANGED <<redemptions, rooms, riders>>

\* await User.findByIdAndUpdate(isRiding: true, $inc stats.totalRides); the answer
StartRideUser(r) ==
    /\ req[r].pc = "rideUser"
    /\ riders' = [riders EXCEPT ![req[r].user].isRiding = TRUE,
                                ![req[r].user].totalRides = @ + 1]
    /\ reply' = "RideStarted"
    /\ req' = [req EXCEPT ![r] = Idle]
    /\ UNCHANGED <<clock, alerts, timers, rewards, stats>>
    /\ UNCHANGED <<presenceVars, dispatchVars, ledgerVars>>
    /\ found' = NoResult
    /\ given' = NoLocationGiven
    /\ UNCHANGED <<redemptions, rooms, rides>>

\* the status a body of PUT /update-ride/:rideId may carry
RideUpdates == {"paused", "active", "completed"}

\* PUT /api/gps/update-ride/:rideId: Ride.findOne({_id, rider, status: {$in:
\* ['active', 'paused']}}), ride.status = status; 'completed' updates the user first
UpdateRideLoad(r, u, i, status) ==
    /\ Free(r)
    /\ IF i \in 1..Len(rides) /\ rides[i].rider = u /\ rides[i].status \in {"active", "paused"}
       THEN /\ req' = [req EXCEPT ![r] =
                          RideRequest(IF status = "completed" THEN "rideStats" ELSE "rideUpdate",
                                      "updateRide", u, i, status)]
            /\ reply' = NoReply
       ELSE /\ reply' = "RideNotFound"
            /\ UNCHANGED req
    /\ UNCHANGED <<clock, alerts, timers, rewards, stats>>
    /\ UNCHANGED <<presenceVars, dispatchVars, ledgerVars>>
    /\ found' = NoResult
    /\ given' = NoLocationGiven
    /\ UNCHANGED communityVars

\* await User.findByIdAndUpdate(isRiding: false, $inc stats.totalDistance)
UpdateRideUser(r) ==
    /\ req[r].pc = "rideStats"
    /\ riders' = [riders EXCEPT ![req[r].user].isRiding = FALSE]
    /\ req' = [req EXCEPT ![r].pc = "rideUpdate"]
    /\ reply' = NoReply
    /\ UNCHANGED <<clock, alerts, timers, rewards, stats>>
    /\ UNCHANGED <<presenceVars, dispatchVars, ledgerVars>>
    /\ found' = NoResult
    /\ given' = NoLocationGiven
    /\ UNCHANGED <<redemptions, rooms, rides>>

\* await ride.save(): $set status
UpdateRideSave(r) ==
    /\ req[r].pc = "rideUpdate"
    /\ rides' = [rides EXCEPT ![req[r].ride].status = req[r].status]
    /\ reply' = "RideUpdated"
    /\ req' = [req EXCEPT ![r] = Idle]
    /\ UNCHANGED <<clock, alerts, timers, rewards, stats>>
    /\ UNCHANGED <<presenceVars, dispatchVars, ledgerVars>>
    /\ found' = NoResult
    /\ given' = NoLocationGiven
    /\ UNCHANGED <<redemptions, rooms, riders>>

\* ------------------------------------------------------------ the system
Next ==
    \/ Tick
    \/ \E a \in AlertIds : AutoResolveTimerFired(a)
    \/ \E a \in AlertIds : AutoResolveSave(a)
    \/ \E r \in Slots, u \in Reporters : CanCreate(LifecycleAlerts) /\ HttpAlertCheck(r, u, AlertPosition)
    \/ \E r \in Slots : HttpAlertSave(r)
    \/ \E r \in Slots : HttpAlertSchedule(r)
    \/ \E r \in Slots, u \in Reporters : CanCreate(LifecycleAlerts) /\ SocketAlertSave(r, u, AlertPosition)
    \/ \E r \in Slots : SocketAlertNearby(r)
    \/ \E r \in Slots : SocketAlertNearbyFails(r)
    \/ \E r \in Slots, u \in Users, a \in AlertIds : HttpRespondLoad(r, u, a)
    \/ \E r \in Slots, u \in Users, a \in AlertIds : SocketRespondLoad(r, u, a)
    \/ \E r \in Slots : RespondSave(r)
    \/ \E r \in Slots : RespondReward(r)
    \/ \E r \in Slots : RespondStats(r)
    \/ \E r \in Slots, u \in Users, a \in AlertIds : ResolveLoad(r, u, a)

Spec == Init /\ [][Next]_vars

\* Several alerts of one reporter: both creation routes, with one responder
\* and the timers moving the alerts through their statuses.
Responder == 2

NextCreate ==
    \/ Tick
    \/ \E a \in AlertIds : AutoResolveTimerFired(a)
    \/ \E a \in AlertIds : AutoResolveSave(a)
    \/ \E r \in Slots, u \in Reporters : CanCreate(MaxAlerts) /\ HttpAlertCheck(r, u, AlertPosition)
    \/ \E r \in Slots : HttpAlertSave(r)
    \/ \E r \in Slots : HttpAlertSchedule(r)
    \/ \E r \in Slots, u \in Reporters : CanCreate(MaxAlerts) /\ SocketAlertSave(r, u, AlertPosition)
    \/ \E r \in Slots : SocketAlertNearby(r)
    \/ \E r \in Slots : SocketAlertNearbyFails(r)
    \/ \E r \in Slots, a \in AlertIds : HttpRespondLoad(r, Responder, a)
    \/ \E r \in Slots : RespondSave(r)
    \/ \E r \in Slots : RespondReward(r)
    \/ \E r \in Slots : RespondStats(r)

SpecCreate == Init /\ [][NextCreate]_vars

\* Repeated reports of one reporter through POST /alert, five minutes apart
\* and closer, while the earlier alerts are answered or time out.
BelowCap(cap) == Len(alerts) + PendingInserts < cap

NextDuplicate ==
    \/ TickBy(FIVE_MINUTES)
    \/ \E a \in AlertIds : AutoResolveTimerFired(a)
    \/ \E a \in AlertIds : AutoResolveSave(a)
    \/ \E r \in Slots, u \in Reporters : BelowCap(MaxAlerts) /\ HttpAlertCheck(r, u, AlertPosition)
    \/ \E r \in Slots : HttpAlertSave(r)
    \/ \E r \in Slots : HttpAlertSchedule(r)
    \/ \E r \in Slots, a \in AlertIds : HttpRespondLoad(r, Responder, a)
    \/ \E r \in Slots : RespondSave(r)
    \/ \E r \in Slots : RespondReward(r)
    \/ \E r \in Slots : RespondStats(r)

SpecDuplicate == Init /\ [][NextDuplicate]_vars

\* Reports through both entry points with and without a location, at the
\* origin, inside and outside the bounds of the globe.
CreateLocations == {NoLocationGiven, 0, AlertPosition, OutOfRange}

NextLocation ==
    \/ \E r \in Slots, u \in Reporters, loc \in CreateLocations :
          BelowCap(MaxAlerts) /\ HttpAlertCheck(r, u, loc)
    \/ \E r \in Slots : HttpAlertSave(r)
    \/ \E r \in Slots : HttpAlertSchedule(r)
    \/ \E r \in Slots, u \in Reporters, loc \in CreateLocations :
          BelowCap(MaxAlerts) /\ SocketAlertSave(r, u, loc)
    \/ \E r \in Slots : SocketAlertNearby(r)
    \/ \E r \in Slots : SocketAlertNearbyFails(r)
    \/ TickBy(FIVE_MINUTES)

SpecLocation == Init /\ [][NextLocation]_vars

\* Alerts at two places that are answered or time out, and the queries for
\* the alerts near a place.
AlertPlaces == {GridMeters, AlertPosition}
Requesters == Reporters \cup {Responder}

NextNearby ==
    \/ Tick
    \/ \E a \in AlertIds : AutoResolveTimerFired(a)
    \/ \E a \in AlertIds : AutoResolveSave(a)
    \/ \E r \in Slots, u \in Reporters, loc \in AlertPlaces :
          CanCreate(MaxAlerts) /\ HttpAlertCheck(r, u, loc)
    \/ \E r \in Slots : HttpAlertSave(r)
    \/ \E r \in Slots : HttpAlertSchedule(r)
    \/ \E r \in Slots, a \in AlertIds : HttpRespondLoad(r, Responder, a)
    \/ \E r \in Slots : RespondSave(r)
    \/ \E r \in Slots : RespondReward(r)
    \/ \E r \in Slots : RespondStats(r)
    \/ \E u \in Requesters, p \in AlertPlaces \cup {NoLocationGiven}, radius \in Radii :
          QueryNearbyAlerts(u, p, radius)

SpecNearby == Init /\ [][NextNearby]_vars

\* Responses to one alert whose store operations may fail.
NextRespondFail ==
    \/ \E r \in Slots, u \in Reporters : CanCreate(LifecycleAlerts) /\ HttpAlertCheck(r, u, AlertPosition)
    \/ \E r \in Slots : HttpAlertSave(r)
    \/ \E r \in Slots : HttpAlertSchedule(r)
    \/ \E r \in Slots, u \in Users, a \in AlertIds : HttpRespondLoad(r, u, a)
    \/ \E r \in Slots, u \in Users, a \in AlertIds : SocketRespondLoad(r, u, a)
    \/ \E r \in Slots : RespondSave(r)
    \/ \E r \in Slots : RespondReward(r)
    \/ \E r \in Slots : RespondStats(r)
    \/ \E r \in Slots : RespondSaveFails(r)
    \/ \E r \in Slots : RespondRewardFails(r)
    \/ \E r \in Slots : RespondStatsFails(r)

SpecRespondFail == Init /\ [][NextRespondFail]_vars

\* Claims of the reporter on its own alert and redemptions of the points.
NextRedeem ==
    \/ \E r \in Slots, u \in Reporters : CanCreate(LifecycleAlerts) /\ HttpAlertCheck(r, u, AlertPosition)
    \/ \E r \in Slots : HttpAlertSave(r)
    \/ \E r \in Slots : HttpAlertSchedule(r)
    \/ \E r \in Slots, u \in Reporters, a \in AlertIds, points \in ClaimPoints :
          Exists(a) /\ ClaimLoad(r, u, a, points)
    \/ \E r \in Slots : ClaimSave(r)
    \/ \E r \in Slots : ClaimStats(r)
    \/ \E r \in Slots : ClaimLedger(r)
    \/ \E r \in Slots, u \in Reporters, pointsCost \in PointsCosts : RedeemLoad(r, u, pointsCost)
    \/ \E r \in Slots : RedeemDeduct(r)
    \/ \E r \in Slots : RedeemDeductFails(r)
    \/ \E r \in Slots : RedeemRecord(r)

SpecRedeem == Init /\ [][NextRedeem]_vars

\* One chat room of the reporter: joins of the other users by either route and
\* additions by the creator.
NextChat ==
    \/ \E u \in Reporters : CreateRoom(u)
    \/ \E r \in Slots, k \in RoomIds : HttpJoinLoad(r, Responder, k)
    \/ \E r \in Slots, u \in Reporters, k \in RoomIds, list \in AddLists : AddLoad(r, u, k, list)
    \/ \E r \in Slots, u \in Users \ Reporters, k \in RoomIds : SocketJoinLoad(r, u, k)
    \/ \E r \in Slots : RoomSave(r)

SpecChat == Init /\ [][NextChat]_vars

\* The rides of one rider: starts, with and without an end location, and
\* status updates.
NextRides ==
    \/ \E r \in Slots, u \in Reporters,
          startLocation \in {NoLocationGiven, AlertPosition},
          endLocation \in {NoLocationGiven, AlertPosition} :
          CanStartRide /\ StartRideCheck(r, u, startLocation, endLocation)
    \/ \E r \in Slots : StartRideRoute(r)
    \/ \E r \in Slots : StartRideSave(r)
    \/ \E r \in Slots : StartRideUser(r)
    \/ \E r \in Slots, u \in Reporters, i \in RideIds, status \in RideUpdates :
          UpdateRideLoad(r, u, i, status)
    \/ \E r \in Slots : UpdateRideUser(r)
    \/ \E r \in Slots : UpdateRideSave(r)

SpecRides == Init /\ [][NextRides]_vars

\* Responses to one alert, by either route, and reward claims that name it.
NextRewards ==
    \/ \E r \in Slots, u \in Reporters : CanCreate(LifecycleAlerts) /\ HttpAlertCheck(r, u, AlertPosition)
    \/ \E r \in Slots : HttpAlertSave(r)
    \/ \E r \in Slots : HttpAlertSchedule(r)
    \/ \E r \in Slots, u \in Users, a \in AlertIds : HttpRespondLoad(r, u, a)
    \/ \E r \in Slots, u \in Users, a \in AlertIds : SocketRespondLoad(r, u, a)
    \/ \E r \in Slots : RespondSave(r)
    \/ \E r \in Slots : RespondReward(r)
    \/ \E r \in Slots : RespondStats(r)
    \/ \E r \in Slots, u \in Users, a \in AlertIds, points \in ClaimPoints :
          Exists(a) /\ ClaimLoad(r, u, a, points)
    \/ \E r \in Slots : ClaimSave(r)
    \/ \E r \in Slots : ClaimStats(r)
    \/ \E r \in Slots : ClaimLedger(r)

SpecRewards == Init /\ [][NextRewards]_vars

\* The connection registry alone: connections, disconnections, location reports.
NextPresence ==
    \/ \E s \in SocketIds, u \in Users : Connect(s, u)
    \/ \E s \in SocketIds : ConnectRegister(s)
    \/ \E s \in SocketIds : Disconnect(s)
    \/ \E s \in SocketIds : DisconnectUnregister(s)
    \/ \E u \in Users, p \in Positions : LocationUpdate(u, p)

SpecPresence == Init /\ [][NextPresence]_vars

\* The registry with the queries that read it.
QuerySockets == 1..MaxQuerySockets

NextQuery ==
    \/ \E s \in QuerySockets, u \in Users : Connect(s, u)
    \/ \E s \in QuerySockets : ConnectRegister(s)
    \/ \E s \in QuerySockets : Disconnect(s)
    \/ \E s \in QuerySockets : DisconnectUnregister(s)
    \/ \E u \in Users, p \in Positions : LocationUpdate(u, p)
    \/ \E u \in Users, p \in Positions \cup {NoLocationGiven}, radius \in Radii,
          includeOffline \in BOOLEAN : NearbyUsers(u, p, radius, includeOffline)

SpecQuery == Init /\ [][NextQuery]_vars

\* The online-only and the include-offline form of findNearby, called directly
\* and by the fan-out of a socket report, over a changing registry.
NextOnline ==
    \/ \E s \in QuerySockets, u \in Users : Connect(s, u)
    \/ \E s \in QuerySockets : ConnectRegister(s)
    \/ \E s \in QuerySockets : Disconnect(s)
    \/ \E s \in QuerySockets : DisconnectUnregister(s)
    \/ \E u \in Users, p \in AlertPlaces : LocationUpdate(u, p)
    \/ \E p \in AlertPlaces, radius \in Radii, option \in OptionValues :
          FindNearbyCall(p, radius, option)
    \/ \E r \in Slots, u \in Reporters :
          CanCreate(LifecycleAlerts) /\ Listening(u) /\ SocketAlertSave(r, u, AlertPosition)
    \/ \E r \in Slots : SocketAlertNearby(r)
    \/ \E r \in Slots : SocketAlertNearbyFails(r)

SpecOnline == Init /\ [][NextOnline]_vars

\* Alert creation with its fan-out and contact notification, over a changing
\* registry.  The socket event arrives on a connection of the reporter.
NextDispatch ==
    \/ \E s \in SocketIds, u \in Users : Connect(s, u)
    \/ \E s \in SocketIds : ConnectRegister(s)
    \/ \E s \in SocketIds : Disconnect(s)
    \/ \E s \in SocketIds : DisconnectUnregister(s)
    \/ \E u \in Users \ Reporters, p \in Positions : LocationUpdate(u, p)
    \/ \E r \in Slots, u \in Reporters : CanCreate(LifecycleAlerts) /\ HttpAlertCheck(r, u, AlertPosition)
    \/ \E r \in Slots : HttpAlertSave(r)
    \/ \E r \in Slots : HttpAlertSchedule(r)
    \/ \E r \in Slots, u \in Reporters :
          CanCreate(LifecycleAlerts) /\ Listening(u) /\ SocketAlertSave(r, u, AlertPosition)
    \/ \E r \in Slots : SocketAlertNearby(r)
    \/ \E r \in Slots : SocketAlertNearbyFails(r)
    \/ \E a \in AlertIds, answered, configured \in BOOLEAN :
          NotifyLookup(a, answered, configured)
    \/ \E a \in AlertIds, loaded \in BOOLEAN : NotifyImport(a, loaded)
    \/ \E a \in AlertIds, delivered \in BOOLEAN : NotifySend(a, delivered)

SpecDispatch == Init /\ [][NextDispatch]_vars

TypeOK ==
    /\ clock \in 0..MaxClock
    /\ Len(alerts) <= MaxAlerts
    /\ \A a \in 1..Len(alerts) : alerts[a].status \in {"active", "responded", "resolved", "cancelled"}
    /\ \A s \in SocketIds : sockets[s].user \in Users \cup {NoUser}
    /\ \A u \in Users :
        /\ connectedUsers[u] \in SocketIds \cup {NoSocket}
        /\ isOnline[u] \in BOOLEAN
        /\ location[u] \in Positions
        /\ \A k \in DOMAIN achievements[u] : achievements[u][k] \in Nat
        /\ leaderboard[u] \in Nat
    /\ \A a \in AlertIds :
        /\ Range(pushes[a]) \subseteq Users
        /\ fanout[a] \in BOOLEAN
        /\ notify[a] \in {"none", "lookup", "import", "sending", "sent", "send-failed",
                          "simulated", "error-logged"}
    /\ \A r \in Slots : req[r].loc \in Positions \cup {NoLocationGiven, OutOfRange}
    /\ Range(found) \subseteq Users \cup AlertIds
    /\ given \in Positions \cup {NoLocationGiven, OutOfRange}
    /\ \A i \in 1..Len(redemptions) : redemptions[i].user \in Users
    /\ Len(rooms) <= MaxRooms
    /\ \A k \in 1..Len(rooms) :
        /\ rooms[k].admin \in Users
        /\ \A p \in Users : rooms[k].participants[p] \in Nat
    /\ Len(rides) <= MaxRides
    /\ \A i \in 1..Len(rides) :
        /\ rides[i].rider \in Users
        /\ rides[i].status \in {"planning", "active", "paused", "completed", "cancelled"}
    /\ \A u \in Users : riders[u].isRiding \in BOOLEAN /\ riders[u].totalRides \in 0..MaxRides

\* The event loop runs every continuation once its await has settled, a due
\* timer fires, and time goes on.
FairSpec ==
    /\ Spec
    /\ SF_vars(Tick)
    /\ \A a \in AlertIds : WF_vars(AutoResolveTimerFired(a)) /\ WF_vars(AutoResolveSave(a))
    /\ \A r \in Slots :
        /\ WF_vars(HttpAlertSave(r))
        /\ WF_vars(HttpAlertSchedule(r))
        /\ WF_vars(SocketAlertNearby(r) \/ SocketAlertNearbyFails(r))
        /\ WF_vars(RespondSave(r))
        /\ WF_vars(RespondReward(r))
        /\ WF_vars(RespondStats(r))

\* ------------------------------------------------------------ properties
\* a step in which the store applies the save of the auto-resolve timer of a
TimerSaveStep(a) == timers[a].state = "saving" /\ timers'[a].state = "done"

\* a step in which a Respond of user u on alert a is received and its alert loaded
RespondStep(u, a) ==
    \E r \in Slots : HttpRespondLoad(r, u, a) \/ SocketRespondLoad(r, u, a)

\* a step in which a Resolve of user u on alert a is received and its alert loaded
ResolveStep(u, a) == \E r \in Slots : ResolveLoad(r, u, a)

ManuallyResolved(a) ==
    /\ Exists(a)
    /\ alerts[a].status = "resolved"
    /\ alerts[a].resolvedBy # NoUser

\* number of emergency_response reward records related to alert a
RewardsFor(a) ==
    LET f[i \in 0..NumUsers] == IF i = 0 THEN 0 ELSE f[i - 1] + rewards[i][a]
    IN f[NumUsers]

\* C1: after a manual Resolve, the firing of the alert's auto-resolve timer
\* changes no field of the stored alert.
C1_TimerAfterManualResolveIsNoOp ==
    [][\A a \in AlertIds :
        (TimerSaveStep(a) /\ ManuallyResolved(a) /\ ~alerts[a].autoResolved)
            => alerts'[a] = alerts[a]]_vars

\* C2: no reporter has two alerts that are both active and both younger than
\* 5 minutes.
C2_NoTwoRecentActiveAlerts ==
    \A a, b \in 1..Len(alerts) :
        (/\ a # b
         /\ alerts[a].user = alerts[b].user
         /\ alerts[a].status = "active"
         /\ alerts[b].status = "active"
         /\ clock - alerts[a].createdAt < FIVE_MINUTES
         /\ clock - alerts[b].createdAt < FIVE_MINUTES) => FALSE

\* C3: at most one emergency_response reward is ever granted for an alert
\* (only the first Respond takes the active -> responded edge).
C3_AtMostOneResponseReward ==
    \A a \in AlertIds : RewardsFor(a) <= 1

\* C4: the responder list of an alert contains no user twice.
C4_NoDuplicateResponder ==
    \A a \in 1..Len(alerts) :
        \A i, j \in 1..Len(alerts[a].responders) :
            i # j => alerts[a].responders[i] # alerts[a].responders[j]

\* C5: a Respond on a responded alert by a user who is neither its reporter
\* nor already a responder is accepted (it goes on to append the responder).
C5_LaterResponderAccepted ==
    [][\A u \in Users, a \in AlertIds :
        (/\ RespondStep(u, a)
         /\ Exists(a)
         /\ alerts[a].status = "responded"
         /\ alerts[a].user # u
         /\ u \notin Range(alerts[a].responders))
            => reply' = NoReply /\ \E r \in Slots : req'[r].pc = "save" /\ req[r].pc = "idle"]_vars

C7_EventuallyAutoResolved ==
    \A a \in AlertIds :
        \/ [](~Exists(a))
        \/ <>(Exists(a) /\ (\/ alerts[a].resolvedBy # NoUser
                             \/ (alerts[a].status = "resolved" /\ alerts[a].autoResolved)))

\* C8: a Respond of the reporter on the reporter's own active alert is answered
\* SelfResponseNotAllowed and changes nothing.
C8_SelfResponseRejected ==
    [][\A u \in Users, a \in AlertIds :
        (/\ RespondStep(u, a)
         /\ Exists(a)
         /\ alerts[a].status = "active"
         /\ alerts[a].user = u)
            => /\ reply' = "SelfResponseNotAllowed"
               /\ UNCHANGED <<alerts, timers, req, rewards, stats>>]_vars

\* C9: a Respond of a user who is already in the responder list is answered
\* DuplicateResponse and changes nothing.
C9_SecondResponseIsDuplicate ==
    [][\A u \in Users, a \in AlertIds :
        (/\ RespondStep(u, a)
         /\ Exists(a)
         /\ alerts[a].user # u
         /\ u \in Range(alerts[a].responders))
            => /\ reply' = "DuplicateResponse"
               /\ UNCHANGED <<alerts, timers, req, rewards, stats>>]_vars

\* C10: once the stored status is resolved or cancelled, no step changes any
\* field of the alert.
C10_ConcludedAlertIsFrozen ==
    [][\A a \in 1..Len(alerts) :
        alerts[a].status \in {"resolved", "cancelled"} => alerts'[a] = alerts[a]]_vars

\* a step in which the store applies the save of a Resolve on alert a
ResolveSaveStep(a) ==
    \E r \in Slots :
        /\ req[r].kind = "resolve"
        /\ req[r].alert = a
        /\ req[r].pc = "save"
        /\ req'[r].pc = "idle"

\* the creation request of alert a has run to its end
CreationDone(a) ==
    /\ Exists(a)
    /\ \A r \in Slots : req[r].pc \in {"schedule", "lookup"} => req[r].alert # a

\* C11: of two racing finalizations of an alert only one is applied: no Resolve
\* and no timer writes its result over an alert that is already stored as
\* resolved, and the Resolve of the reporter or of a listed responder that
\* finds the alert resolved is answered AlreadyResolved.
C11_OneFinalizationApplied ==
    [][/\ \A a \in 1..Len(alerts) :
            alerts[a].status = "resolved" => ~(ResolveSaveStep(a) \/ TimerSaveStep(a))
       /\ \A u \in Users, a \in 1..Len(alerts) :
            (/\ ResolveStep(u, a)
             /\ alerts[a].status = "resolved"
             /\ (alerts[a].user = u \/ u \in Range(alerts[a].responders)))
                => reply' = "AlreadyResolved"]_vars

\* C12: no auto-resolve timer is pending for an alert that a manual Resolve has
\* resolved.
C12_ResolveCancelsTimer ==
    \A a \in AlertIds : ManuallyResolved(a) => timers[a].state # "pending"

\* C13: every persisted alert whose creation request has ended has its
\* auto-resolve timer, due 30 minutes after creation.
C13_EveryAlertHasItsTimer ==
    \A a \in AlertIds :
        CreationDone(a) =>
            /\ timers[a].state # "none"
            /\ timers[a].due = alerts[a].createdAt + THIRTY_MINUTES

\* the disconnect handler of socket s removes its user's registry entry
UnregisterStep(s) ==
    /\ sockets[s].pc = "unregister"
    /\ sockets'[s].pc = "closed"

\* C14: the disconnect of an older connection of a user leaves the registry
\* entry of the user's newer connection in place.
C14_StaleDisconnectKeepsNewerEntry ==
    [][\A s \in SocketIds :
        LET u == sockets[s].user
        IN (UnregisterStep(s) /\ connectedUsers[u] \notin {s, NoSocket})
               => connectedUsers'[u] = connectedUsers[u]]_vars

\* the connections of user u whose transport is open
LiveSockets(u) == {s \in SocketIds : sockets[s].user = u /\ sockets[s].live}

\* C15: at most one live connection exists per user at any time.
C15_OneLiveConnectionPerUser ==
    \A u \in Users : Cardinality(LiveSockets(u)) <= 1

\* the creation handler of alert a performs its fan-out
FanoutStep(a) == Exists(a) /\ ~fanout[a] /\ fanout'[a]

\* user u is within 10 000 m of alert a and is not its reporter
InRange(u, a) ==
    /\ Distance(location[u], alerts[a].location) <= TEN_KM
    /\ u # alerts[a].user

\* the users a fan-out of alert a has to reach: those with an open connection
\* whose connection handler has finished
Candidates(a) == {u \in Users : Listening(u) /\ InRange(u, a)}

\* the users a fan-out of alert a may reach: those with an open connection
Reachable(a) == {u \in Users : LiveSockets(u) # {} /\ InRange(u, a)}

\* C16: the fan-out of an alert pushes exactly the online users within
\* 10 000 m of the alert other than the reporter, nearest first: every such
\* user with a registered connection is pushed, and no user without an open
\* connection, beyond the radius or equal to the reporter is.
C16_PushedExactlyNearbyOnline ==
    [][\A a \in AlertIds :
        FanoutStep(a) =>
            LET pushed == Range(pushes'[a])
            IN /\ Candidates(a) \subseteq pushed
               /\ pushed \subseteq Reachable(a)
               /\ pushes'[a] = NearestFirst(pushed, alerts[a].location)]_vars

\* the creation request of alert a has ended with its success answer
CreatedOk(a) == CreationDone(a) /\ timers[a].state # "none"

\* C17: every successfully created alert, by either route, has been fanned out
\* to the nearby riders and has had the notification of the reporter's
\* emergency contacts started.
C17_CreateFansOutAndNotifies ==
    \A a \in AlertIds : CreatedOk(a) => (fanout[a] /\ notify[a] # "none")

\* the POST /alert request in slot r ends
HttpCreateEnds(r) ==
    /\ req[r].pc = "schedule"
    /\ req[r].kind = "httpAlert"
    /\ req'[r].pc = "idle"

\* the notification of alert a's contacts moves on
NotifyStep(a) == notify[a] # "none" /\ notify'[a] # notify[a]

\* the notification of alert a's contacts has ended in a failure
NotifyFailed(a) == notify[a] \in {"error-logged", "simulated", "send-failed"}

\* C18: a POST /alert request that has persisted its alert ends with the timer
\* scheduled and the success answer, and no step of the contact notification,
\* whatever its outcome, changes the stored alerts, the timers or turns the
\* answer into a failure.
C18_NotifyNeverFailsCreation ==
    [][/\ \A r \in Slots :
            HttpCreateEnds(r) =>
                /\ reply' = "AlertCreated"
                /\ timers'[req[r].alert].state = "pending"
                /\ alerts'[req[r].alert] = NewAlert(req[r].user, clock, req[r].loc)
       /\ \A a \in AlertIds :
            NotifyStep(a) =>
                /\ alerts' = alerts
                /\ timers' = timers
                /\ reply' # "Failed"
                /\ timers[a].state = "pending"]_vars

\* an alert created by POST /alert stands, timer pending, after its contact
\* notification has failed
C18_Witness ==
    \E a \in AlertIds :
        /\ NotifyFailed(a)
        /\ Exists(a)
        /\ alerts[a].status = "active"
        /\ timers[a].state = "pending"

\* the number of 'emergency-alert' pushes of alert a sent to user u
PushCount(a, u) == Cardinality({i \in 1..Len(pushes[a]) : pushes[a][i] = u})

ResponseCredit(u) ==
    stats[u].rewardPoints
        - (IF achievements[u].first_responder >= AchievementDefs.first_responder.target
           THEN AchievementDefs.first_responder.points ELSE 0)

\* C20: at most one emergency_response reward record exists per user and
\* alert, and the user is credited for it at most once (at most the points of
\* one grant).
C20_OneRewardPerUserActivityAlert ==
    \A u \in Users :
        /\ \A a \in AlertIds : rewards[u][a] <= 1
        /\ ResponseCredit(u) <= MAX_EMERGENCY_POINTS

\* the list is in non-decreasing order of distance from p
NearestFirstOrder(list, p) ==
    \A i, j \in 1..Len(list) :
        i < j => Distance(location[list[i]], p) <= Distance(location[list[j]], p)

\* GET /nearby-users answers user u's query about point p and the radius
NearbyUsersStep(u, p, radius) ==
    /\ reply' = "NearbyUsers"
    /\ \E includeOffline \in BOOLEAN : NearbyUsers(u, p, radius, includeOffline)

\* C21: the nearby-user query answers only users within the radius of the
\* point, nearest first, and neither the list answered to the requester of the
\* nearby-users endpoint nor the fan-out of an alert contains the requester.
C21_NearbyWithinRadiusSortedNoRequester ==
    [][/\ \A u \in Users, p \in Positions, radius \in Radii :
            NearbyUsersStep(u, p, radius) =>
                /\ \A v \in Range(found') : Distance(location[v], p) <= radius
                /\ NearestFirstOrder(found', p)
                /\ u \notin Range(found')
       /\ \A a \in AlertIds :
            FanoutStep(a) => alerts[a].user \notin Range(pushes'[a])]_vars

\* C22: a firing of the auto-resolve timer changes the alert only if its stored
\* status is active at that time: on an alert that is responded (or otherwise
\* no longer active) the callback and its save leave the stored alert as it is,
\* status responded and autoResolved false included.
C22_TimerFiringNoOpUnlessActive ==
    [][\A a \in 1..Len(alerts) :
          ((AutoResolveTimerFired(a) \/ TimerSaveStep(a)) /\ alerts[a].status # "active")
              => alerts'[a] = alerts[a]]_vars

\* POST /api/emergency/alert of reporter u, with type and location given
HttpCreateStep(u) == \E r \in Slots : HttpAlertCheck(r, u, AlertPosition)

\* u has an alert in status active created less than `age` minutes ago
ActiveAlertYoungerThan(u, age) ==
    \E a \in 1..Len(alerts) :
        /\ alerts[a].user = u
        /\ alerts[a].status = "active"
        /\ clock - alerts[a].createdAt < age

\* u has an alert in status active created at most `age` minutes ago
ActiveAlertNotOlderThan(u, age) ==
    \E a \in 1..Len(alerts) :
        /\ alerts[a].user = u
        /\ alerts[a].status = "active"
        /\ clock - alerts[a].createdAt <= age

CreateReceived ==
    \E r \in Slots, u \in Reporters :
        HttpAlertCheck(r, u, given') \/ SocketAlertSave(r, u, given')

\* the insert of an HTTP creation is answered by the store
HttpInsertStep(r) == HttpAlertSave(r)

\* the answer that names the location as the fault
InvalidLocation == "TypeAndLocationRequired"

\* C24: on every entry point, a Create without a location or with a coordinate
\* outside the valid range is answered InvalidLocation and stores no alert, and
\* a Create with coordinates in range, latitude 0 and longitude 0 included, is
\* never answered InvalidLocation.
C24_InvalidLocationExactlyWhenMissingOrOutOfRange ==
    [][/\ CreateReceived =>
            /\ given' = NoLocationGiven => (reply' = InvalidLocation /\ alerts' = alerts)
            /\ (given' # NoLocationGiven /\ ValidPoint(given')) => reply' # InvalidLocation
       /\ \A r \in Slots, u \in Reporters :
            (SocketAlertSave(r, u, given') /\ given' = OutOfRange)
                => (reply' = InvalidLocation /\ alerts' = alerts)
       /\ \A r \in Slots :
            (HttpInsertStep(r) /\ req[r].loc = OutOfRange)
                => (reply' = InvalidLocation /\ alerts' = alerts)]_vars

\* a step of a Respond handler, from the load of the alert to the reply
RespondHandlerStep ==
    \/ \E u \in Users, a \in AlertIds : RespondStep(u, a)
    \/ \E r \in Slots : RespondSave(r) \/ RespondReward(r) \/ RespondStats(r)

\* C25: the auto-resolve timer of an alert is due 30 minutes after the
\* creation of the alert, and no step of a Respond changes any timer: a Respond
\* neither reschedules nor cancels it.
C25_TimerDueThirtyMinutesAfterCreation ==
    [][/\ \A a \in 1..Len(alerts') :
            timers'[a].state # "none" =>
                timers'[a].due = alerts'[a].createdAt + THIRTY_MINUTES
       /\ RespondHandlerStep => timers' = timers]_vars

\* an alert answered after its creation was resolved by its timer 30 minutes
\* after the creation
C25_Witness ==
    \E a \in 1..Len(alerts) :
        /\ alerts[a].responders # <<>>
        /\ alerts[a].autoResolved
        /\ timers[a].state = "done"
        /\ alerts[a].resolvedAt = alerts[a].createdAt + THIRTY_MINUTES

\* a step of the 'disconnect' handler of some connection, or the loss of a
\* connection that has no handler yet
DisconnectStep ==
    \E s \in SocketIds : Disconnect(s) \/ DisconnectUnregister(s)

\* C26: a disconnect of any connection, the reporter's included, leaves the
\* stored fields of every alert and every auto-resolve timer unchanged.
C26_DisconnectLeavesAlertsAndTimers ==
    [][DisconnectStep => (alerts' = alerts /\ timers' = timers)]_vars

\* the reporter of an active alert with a pending timer has disconnected and
\* been unregistered
C26_Witness ==
    \E a \in 1..Len(alerts), s \in SocketIds :
        /\ sockets[s].user = alerts[a].user
        /\ sockets[s].pc = "closed"
        /\ connectedUsers[alerts[a].user] = NoSocket
        /\ alerts[a].status = "active"
        /\ timers[a].state = "pending"

\* the connection handler of socket s registers its user
RegisterStep(s) == ConnectRegister(s)

\* the user of socket s is registered with another connection that is live
AlreadyOnline(s) ==
    LET u == sockets[s].user
    IN /\ isOnline[u]
       /\ connectedUsers[u] # NoSocket
       /\ connectedUsers[u] # s
       /\ sockets[connectedUsers[u]].live

\* C27: Register emits a user-online transition only if the user was not
\* already marked online: the registration of a further connection of a user
\* who is online emits none.
C27_OnlineTransitionOnlyWhenNotOnline ==
    [][\A s \in SocketIds :
          (RegisterStep(s) /\ AlreadyOnline(s)) => reply' # "user-online"]_vars

\* the step wrote nothing and left no handler running
NothingWritten ==
    /\ alerts' = alerts
    /\ rewards' = rewards
    /\ stats' = stats
    /\ req' = req

\* C28: a Respond on an alert that does not exist is answered AlertNotFound and
\* a Respond on a resolved or cancelled alert is answered AlertNotActive; in
\* both cases no responder is added, the status stays, no reward is granted and
\* the caller's helpCount and rewardPoints stay.
C28_RespondOnMissingOrConcludedAlert ==
    [][\A u \in Users, a \in AlertIds : RespondStep(u, a) =>
          /\ ~Exists(a) => (reply' = "AlertNotFound" /\ NothingWritten)
          /\ (Exists(a) /\ alerts[a].status \in {"resolved", "cancelled"})
                => (reply' = "AlertNotActive" /\ NothingWritten)]_vars

\* notifyContacts for alert a finds the gateway unconfigured, or its module
\* not loadable, or its sends failing
GatewayUnavailableStep(a) ==
    \/ NotifyLookup(a, TRUE, FALSE)
    \/ NotifyImport(a, FALSE)
    \/ NotifySend(a, FALSE)

\* C29: when the external gateway is unconfigured or unavailable (its module
\* cannot be loaded, or its sends fail), notifyContacts ends with the logged
\* simulated notification, not with an error.
C29_FallsBackToSimulation ==
    [][\A a \in AlertIds : GatewayUnavailableStep(a) => notify'[a] = "simulated"]_vars

\* GET /api/emergency/nearby answers user u's query about point p and the radius
NearbyAlertsStep(u, p, radius) ==
    reply' = "NearbyAlerts" /\ QueryNearbyAlerts(u, p, radius)

FindNearbyStep(p, radius, option) ==
    reply' = "findNearby" /\ FindNearbyCall(p, radius, option)

\* the users within the radius of p, whatever their stored online status
WithinRadius(p, radius) == {v \in Users : Distance(location[v], p) <= radius}

\* C31: findNearby answers only users stored with isOnline = true unless its
\* includeOffline option is exactly true, and then the stored online status is
\* ignored; the fan-out of an alert uses the online-only form, so a rider is
\* pushed only if stored as online and present in the connection registry.
C31_OnlineOnlyUnlessExactlyTrue ==
    [][/\ \A p \in AlertPlaces, radius \in Radii, option \in OptionValues :
            FindNearbyStep(p, radius, option) =>
                IF option = "true"
                THEN Range(found') = WithinRadius(p, radius)
                ELSE Range(found') = {v \in WithinRadius(p, radius) : isOnline[v]}
       /\ \A a \in AlertIds : FanoutStep(a) =>
            \A v \in Range(pushes'[a]) : isOnline[v] /\ connectedUsers[v] # NoSocket]_vars

\* a fan-out has just passed over a rider in range who is in the connection
\* registry but stored as offline
C31_Witness ==
    /\ reply = "AlertCreated"
    /\ \E a \in 1..Len(alerts), v \in Users :
        /\ fanout[a]
        /\ v # alerts[a].user
        /\ Distance(location[v], alerts[a].location) <= TEN_KM
        /\ connectedUsers[v] # NoSocket
        /\ ~isOnline[v]
        /\ v \notin Range(pushes[a])

\* the transport of socket s has closed and no handler of s is running or
\* still to run
HandlersCompleted(s) ==
    /\ sockets[s].pc \in {"ready", "closed"}
    /\ ~sockets[s].live

\* C32: once all handlers of a disconnected socket have completed, the
\* connection registry holds no entry with its socket id, also when the
\* disconnect arrived while the connection handler was awaiting the update of
\* the stored user status.
C32_DisconnectedSocketLeavesRegistry ==
    \A s \in SocketIds :
        HandlersCompleted(s) => connectedUsers[sockets[s].user] # s

\* no connection handler and no disconnect handler is at its await
PresenceHandlersCompleted ==
    \A s \in SocketIds : sockets[s].pc \in {"none", "ready", "closed"}

\* C33: whenever all connect and disconnect handlers have completed, a user's
\* stored isOnline flag is true exactly when the connection registry holds an
\* entry for the user.
C33_OnlineFlagMatchesRegistry ==
    PresenceHandlersCompleted =>
        \A u \in Users : isOnline[u] <=> connectedUsers[u] # NoSocket

\* the Respond request in slot r ends with the error answer
RespondErrorStep(r) ==
    RespondSaveFails(r) \/ RespondRewardFails(r) \/ RespondStatsFails(r)

\* the entries of user u in the responder list of alert a
ResponderEntries(a, u) ==
    Cardinality({i \in 1..Len(alerts[a].responders) : alerts[a].responders[i] = u})

\* the Respond requests of user u on alert a other than slot r whose save of
\* the alert is done and whose answer is still to come
SavedInFlight(r, a, u) ==
    Cardinality({q \in Slots \ {r} :
        /\ req[q].kind = "respond" /\ req[q].user = u /\ req[q].alert = a
        /\ req[q].pc \in {"reward", "stats"}})

\* C34: a Respond that ends with an error leaves the alert as it was: the
\* responder entry of the failed request is not in the store (every entry of
\* the user belongs to a Respond that succeeded or is still running), and the
\* alert is responded only if it has a responder entry of such a Respond.
C34_FailedRespondLeavesAlertUnchanged ==
    [][\A r \in Slots : RespondErrorStep(r) =>
          LET a == req[r].alert
              u == req[r].user
          IN /\ ResponderEntries(a, u) <= stats[u].helpCount + SavedInFlight(r, a, u)
             /\ alerts[a].status = "responded" =>
                   \E v \in Users : stats[v].helpCount + SavedInFlight(r, a, v) > 0]_vars

\* the notifiedUsers count of the 'emergency-alert-sent' just emitted
NotifiedUsers == Len(found)

\* C35: the notifiedUsers count answered to the reporter in
\* 'emergency-alert-sent' equals the number of riders to whom the
\* 'emergency-alert' push of that alert was sent.
C35_NotifiedUsersCountsPushes ==
    [][\A a \in AlertIds :
          (FanoutStep(a) /\ reply' = "AlertCreated") => NotifiedUsers' = Len(pushes'[a])]_vars

\* a step in which the redeem request of slot r sends its reply
RedeemReplyStep(r) == req[r].kind = "redeem" /\ req'[r].pc = "idle"

\* the request of slot r has deducted its pointsCost
Deducted(r) == req[r].kind = "redeem" /\ req[r].pc = "record"

\* C36: a redeem request that answers a failure has not changed the user's
\* rewardPoints, and a redeem request that has deducted its pointsCost answers
\* success and leaves a redemption record of that user and cost in the ledger.
C36_RedeemDeductsOnlyWithRecord ==
    [][\A r \in Slots :
          RedeemReplyStep(r) =>
              /\ reply' = "RedeemFailed" => (~Deducted(r) /\ stats' = stats)
              /\ Deducted(r) =>
                    /\ reply' = "PointsRedeemed"
                    /\ redemptions' = Append(redemptions, Redemption(req[r].user, req[r].points))]_vars

\* C37: in every reachable state every user's rewardPoints is at least zero.
C37_RewardPointsNeverNegative == \A u \in Users : stats[u].rewardPoints >= 0

\* C38: in every reachable state the participant list of every chat room holds
\* each user at most once and at most settings.maxParticipants entries.
C38_ParticipantsUniqueAndBounded ==
    \A k \in 1..Len(rooms) :
        /\ \A p \in Users : rooms[k].participants[p] <= 1
        /\ ParticipantsLength(rooms[k]) <= rooms[k].settings.maxParticipants

\* the rides of rider u with a status among planning, active and paused
OpenRides(u) == {i \in 1..Len(rides) : rides[i].rider = u /\ rides[i].status \in OpenStatuses}

\* C39: in every reachable state every rider has at most one ride whose status
\* is planning, active or paused.
C39_AtMostOneOpenRide == \A u \in Users : Cardinality(OpenRides(u)) <= 1

====
